---------------------------- MODULE Spec2Model ----------------------------
(***************************************************************************)
(* Model of streamlit_battery_system.py: the BatteryCellMonitor calculator *)
(* (calculate_soc, get_cell_status, process_cells_data and the random      *)
(* generators) and the Streamlit script that drives it (configuration      *)
(* widgets, buttons, monitoring tick, evaluation pass).                    *)
(*                                                                         *)
(* Units.  The program works on Python floats.  The model keeps every      *)
(* quantity as an integer in the unit of its last significant digit:       *)
(*   voltage      millivolt         current      milliampere               *)
(*   SOC          0.1 percent       Power_W      0.01 watt                 *)
(*   temperature  0.1 degree C      random()     1/1000                    *)
(* round(x, n) is modelled by Round (nearest, exact decimal ties to even). *)
(* On an exact decimal tie the binary double may sit on either side of the *)
(* tie, so there the program returns one of the two neighbours; no formula *)
(* below depends on which.                                                 *)
(***************************************************************************)
EXTENDS Integers, Sequences, FiniteSets, TLC

VARIABLES
    cell_types,         \* self.cell_types: the chemistry profile table
    cells_config,       \* st.session_state.cells_config / the caller's readings
    monitoring_active,  \* st.session_state.monitoring_active
    pc,                 \* position of the script (or "call" for a direct caller)
    event,              \* the widget change or button press the current run
                        \* was started by (NoEvent once the run has used it)
    cells_data,         \* module-level cells_data of the current run (line 273)
    error,              \* the uncaught exception that ended the last run
    runs,               \* number of script runs started
    variation,          \* voltage_variation, current_variation of this run's tick
    stale,              \* a tick has perturbed the readings since the last
                        \* process_cells_data call
    ret,                \* return value (or exception) of the last direct call
    log                 \* observed (arguments, result) pairs of direct calls

vars == <<cell_types, cells_config, monitoring_active, pc, event, cells_data,
          error, runs, variation, stale, ret, log>>

appVars == <<monitoring_active, event, cells_data, error, runs, variation, stale>>

----------------------------------------------------------------------------
(* Bounds of the model *)

\* largest voltage (mV) handed to the calculator by a direct caller
MaxVoltage == 5000

\* longest sequence of readings handed to process_cells_data by a direct caller
MaxBatch == 2

\* number of cell slots of the dashboard (the script has 8)
NumCells == 2

\* number of script runs explored
MaxRuns == 5

----------------------------------------------------------------------------
(* Arithmetic helpers *)

Max(a, b) == IF a >= b THEN a ELSE b

Min(a, b) == IF a <= b THEN a ELSE b

\* faulty variant: truncation towards minus infinity instead of rounding to nearest
RoundFloor(n, d) == n \div d

\* Python round(): n/d (d > 0) to the nearest integer, exact ties to even
Round(n, d) ==
    LET q == n \div d
        r == n % d
    IN  IF 2 * r > d \/ (2 * r = d /\ q % 2 = 1) THEN q + 1 ELSE q

----------------------------------------------------------------------------
(* BatteryCellMonitor *)

\* BatteryCellMonitor.__init__: the four chemistry profiles (mV)
CellTypes ==
    [t \in {"LFP", "NMC", "LCO", "LTO"} |->
        CASE t = "LFP" -> [nominal_voltage |-> 3200, minimum_voltage |-> 2800,
                           maximum_voltage |-> 3600,
                           name |-> "Lithium Iron Phosphate"]
          [] t = "NMC" -> [nominal_voltage |-> 3600, minimum_voltage |-> 3200,
                           maximum_voltage |-> 4000,
                           name |-> "Nickel Manganese Cobalt"]
          [] t = "LCO" -> [nominal_voltage |-> 3700, minimum_voltage |-> 3000,
                           maximum_voltage |-> 4200,
                           name |-> "Lithium Cobalt Oxide"]
          [] t = "LTO" -> [nominal_voltage |-> 2400, minimum_voltage |-> 1500,
                           maximum_voltage |-> 2800,
                           name |-> "Lithium Titanate Oxide"]]

\* self.cell_types[cell_type] raises KeyError unless the key is in the table
KnownType(cell_type) == cell_type \in DOMAIN cell_types

\* generate_random_voltage; u is random() in 1/1000, result rounded to 0.01 V
generate_random_voltage(cell_type, u) ==
    LET specs == cell_types[cell_type]
        range_voltage == specs.maximum_voltage - specs.minimum_voltage
    IN  10 * Round(specs.minimum_voltage * 1000 + u * range_voltage, 10000)

\* generate_random_current; 0.5 + random() * 2, rounded to 0.01 A
generate_random_current(u) == 10 * Round(500 + u * 2, 10)

\* generate_random_temperature; 20 + random() * 25, rounded to 0.1 C
generate_random_temperature(u) == Round(200 * 1000 + u * 250, 1000)

\* faulty variant: the clamp max(0, min(100, .)) is missing
calculate_soc_unclamped(voltage, cell_type) ==
    LET specs == cell_types[cell_type]
        range_voltage == specs.maximum_voltage - specs.minimum_voltage
    IN  Round((voltage - specs.minimum_voltage) * 1000, range_voltage)

\* faulty variant: the percentage is truncated instead of rounded
calculate_soc_truncated(voltage, cell_type) ==
    LET specs == cell_types[cell_type]
        range_voltage == specs.maximum_voltage - specs.minimum_voltage
        soc == RoundFloor((voltage - specs.minimum_voltage) * 1000, range_voltage)
    IN  Max(0, Min(1000, soc))

\* calculate_soc: ((voltage - min) / range) * 100, round(., 1), clamped to
\* [0, 100]; the result is in 0.1 percent
calculate_soc(voltage, cell_type) ==
    LET specs == cell_types[cell_type]
        range_voltage == specs.maximum_voltage - specs.minimum_voltage
        soc == Round((voltage - specs.minimum_voltage) * 1000, range_voltage)
    IN  Max(0, Min(1000, soc))

\* faulty variant: strict comparisons, the boundary values fall into NORMAL
get_cell_status_strict(voltage, cell_type) ==
    LET specs == cell_types[cell_type]
    IN  IF voltage * 100 < specs.minimum_voltage * 105 THEN "LOW"
        ELSE IF voltage * 100 > specs.maximum_voltage * 95 THEN "HIGH"
        ELSE "NORMAL"

\* get_cell_status: voltage <= min * 1.05, then voltage >= max * 0.95
get_cell_status(voltage, cell_type) ==
    LET specs == cell_types[cell_type]
    IN  IF voltage * 100 <= specs.minimum_voltage * 105 THEN "LOW"
        ELSE IF voltage * 100 >= specs.maximum_voltage * 95 THEN "HIGH"
        ELSE "NORMAL"

\* faulty variant: the product is truncated to 2 decimals instead of rounded
power_truncated(voltage, current) == RoundFloor(voltage * current, 10000)

\* line 140: power = round(voltage * current, 2), in 0.01 W
power(voltage, current) == Round(voltage * current, 10000)

\* lines 145-155: the record appended for reading number i (1-based)
cell_record(i, config, u) ==
    [Cell_ID       |-> "Cell_" \o ToString(i),
     Type          |-> config.type,
     Voltage_V     |-> config.voltage,
     Current_A     |-> config.current,
     Power_W       |-> power(config.voltage, config.current),
     Temperature_C |-> generate_random_temperature(u),
     SOC_pct       |-> calculate_soc(config.voltage, config.type),
     Status        |-> get_cell_status(config.voltage, config.type),
     Specs         |-> cell_types[config.type]]

\* faulty variant: enumerate(cells_config) without the start index 1
process_cells_data_from0(config_seq, us) ==
    IF \E i \in 1..Len(config_seq) : ~KnownType(config_seq[i].type)
    THEN [error |-> "KeyError", value |-> <<>>]
    ELSE [error |-> "none",
          value |-> [i \in 1..Len(config_seq) |->
                        cell_record(i - 1, config_seq[i], us[i])]]

\* faulty variant: a reading of unknown chemistry is evaluated with the LFP profile
process_cells_data_defaulting(config_seq, us) ==
    [error |-> "none",
     value |-> [i \in 1..Len(config_seq) |->
                  cell_record(i,
                      IF KnownType(config_seq[i].type) THEN config_seq[i]
                      ELSE [config_seq[i] EXCEPT !.type = "LFP"], us[i])]]

\* process_cells_data: one record per reading, in order; the first unknown
\* chemistry raises KeyError out of calculate_soc and nothing is returned.
\* us[i] is the random() draw of reading i's temperature.
process_cells_data(config_seq, us) ==
    IF \E i \in 1..Len(config_seq) : ~KnownType(config_seq[i].type)
    THEN [error |-> "KeyError", value |-> <<>>]
    ELSE [error |-> "none",
          value |-> [i \in 1..Len(config_seq) |->
                        cell_record(i, config_seq[i], us[i])]]

----------------------------------------------------------------------------
(* A direct caller of the calculator: it owns a sequence of readings and    *)
(* calls calculate_soc, get_cell_status and process_cells_data on it, in    *)
(* any order and any number of times.                                       *)

\* random() draws explored, in 1/1000 (random() is in [0, 1))
RandomDraws == {0, 999}

\* currents (mA) of the single readings handed to the calculator
CallCurrents == {0, 1000, 1235}

\* single readings of known chemistry: every voltage of a 5 mV grid
CellInputs ==
    {<<[type |-> t, voltage |-> v, current |-> c]>> :
        t \in DOMAIN CellTypes,
        v \in {x \in 0..MaxVoltage : x % 5 = 0},
        c \in CallCurrents}

\* readings mixed into batches; "XYZ" is no key of the profile table
BatchReadings ==
    {[type |-> "LFP", voltage |-> 2800, current |-> 1000],
     [type |-> "NMC", voltage |-> 3600, current |-> 1000],
     [type |-> "LCO", voltage |-> 3100, current |-> 1234],
     [type |-> "LTO", voltage |-> 0,    current |-> 2500],
     [type |-> "XYZ", voltage |-> 3000, current |-> 1000]}

BatchInputs ==
    UNION {[1..n -> BatchReadings] : n \in 0..MaxBatch}

\* a script run that no widget change or button press started
NoEvent == [kind |-> "none", cell |-> 0, value |-> 0]

NoCall == [op |-> "none", error |-> "none", value |-> <<>>]

\* SOC_%, Status and Power_W of each record of a result sequence
Outputs(records) ==
    [i \in 1..Len(records) |->
        [SOC_pct |-> records[i].SOC_pct, Status |-> records[i].Status,
         Power_W |-> records[i].Power_W]]

InitCalc ==
    /\ cell_types = CellTypes
    /\ cells_config \in CellInputs \cup BatchInputs
    /\ monitoring_active = FALSE
    /\ pc = "call"
    /\ event = NoEvent
    /\ cells_data = <<>>
    /\ error = "none"
    /\ runs = 0
    /\ variation = <<>>
    /\ stale = FALSE
    /\ ret = NoCall
    /\ log = [soc |-> {}, status |-> {}, batch |-> {}]

\* monitor.calculate_soc(reading k's voltage, reading k's chemistry)
CallCalculateSoc ==
    /\ pc = "call"
    /\ \E k \in 1..Len(cells_config) :
        LET voltage == cells_config[k].voltage
            cell_type == cells_config[k].type
            r == IF KnownType(cell_type)
                 THEN [error |-> "none",
                       value |-> <<calculate_soc(voltage, cell_type)>>]
                 ELSE [error |-> "KeyError", value |-> <<>>]
        IN  /\ ret' = [op |-> "calculate_soc", error |-> r.error,
                       value |-> r.value]
            /\ log' = [log EXCEPT !.soc = @ \cup {<<voltage, cell_type, r>>}]
    /\ UNCHANGED <<cell_types, cells_config, pc, appVars>>

\* monitor.get_cell_status(reading k's voltage, reading k's chemistry)
CallGetCellStatus ==
    /\ pc = "call"
    /\ \E k \in 1..Len(cells_config) :
        LET voltage == cells_config[k].voltage
            cell_type == cells_config[k].type
            r == IF KnownType(cell_type)
                 THEN [error |-> "none",
                       value |-> <<get_cell_status(voltage, cell_type)>>]
                 ELSE [error |-> "KeyError", value |-> <<>>]
        IN  /\ ret' = [op |-> "get_cell_status", error |-> r.error,
                       value |-> r.value]
            /\ log' = [log EXCEPT !.status = @ \cup {<<voltage, cell_type, r>>}]
    /\ UNCHANGED <<cell_types, cells_config, pc, appVars>>

\* faulty variant: the batch evaluation clamps each reading's voltage in place, in
\* the caller's sequence
CallProcessCellsDataInPlace ==
    /\ pc = "call"
    /\ \E us \in [1..Len(cells_config) -> RandomDraws] :
        LET r == process_cells_data(cells_config, us)
        IN  /\ ret' = [op |-> "process_cells_data", error |-> r.error,
                       value |-> r.value]
            /\ log' = [log EXCEPT !.batch =
                          @ \cup {<<cells_config, r.error, Outputs(r.value)>>}]
    /\ cells_config' =
          [i \in 1..Len(cells_config) |->
              [cells_config[i] EXCEPT !.voltage = Min(@, 4200)]]
    /\ UNCHANGED <<cell_types, pc, appVars>>

\* monitor.process_cells_data(the caller's readings)
CallProcessCellsData ==
    /\ pc = "call"
    /\ \E us \in [1..Len(cells_config) -> RandomDraws] :
        LET r == process_cells_data(cells_config, us)
        IN  /\ ret' = [op |-> "process_cells_data", error |-> r.error,
                       value |-> r.value]
            /\ log' = [log EXCEPT !.batch =
                          @ \cup {<<cells_config, r.error, Outputs(r.value)>>}]
    /\ UNCHANGED <<cell_types, cells_config, pc, appVars>>

NextCalc ==
    \/ CallCalculateSoc
    \/ CallGetCellStatus
    \/ CallProcessCellsData

SpecCalc == InitCalc /\ [][NextCalc]_vars

----------------------------------------------------------------------------
(* Properties of the calculator, checked under SpecCalc *)

\* the entries of a per-function log whose chemistry is one of the four profiles
Known(entries) == {e \in entries : e[2] \in DOMAIN CellTypes /\ e[3].error = "none"}

\* C1: get_cell_status returns LOW exactly when v <= 1.05 * minimum_voltage,
\* HIGH exactly when v >= 0.95 * maximum_voltage and not LOW, NORMAL otherwise,
\* for all four profiles; the boundary values themselves are LOW and HIGH; the
\* result is always one of the three labels.
C1_StatusThresholds ==
    \A e \in log.status :
        e[2] \in DOMAIN CellTypes =>
            LET v == e[1]
                lo == CellTypes[e[2]].minimum_voltage * 105
                hi == CellTypes[e[2]].maximum_voltage * 95
                status == e[3].value[1]
            IN  /\ e[3].error = "none"
                /\ status \in {"LOW", "NORMAL", "HIGH"}
                /\ (status = "LOW") <=> (v * 100 <= lo)
                /\ (status = "HIGH") <=> (v * 100 >= hi /\ ~(v * 100 <= lo))
                /\ (status = "NORMAL") <=> (v * 100 > lo /\ v * 100 < hi)
                /\ (v * 100 = lo) => status = "LOW"
                /\ (v * 100 = hi) => status = "HIGH"

\* C1 witness: get_cell_status was called with exactly 1.05 * minimum_voltage
\* of LTO (1.575 V) and answered LOW
C1_Witness ==
    \E e \in log.status :
        /\ e[2] = "LTO" /\ e[1] = 1575
        /\ e[3].value = <<"LOW">>

\* C2: calculate_soc is within [0, 100] for every voltage, exactly 0 at and
\* below minimum_voltage and exactly 100 at and above maximum_voltage.
C2_SocClamped ==
    \A e \in log.soc :
        e[2] \in DOMAIN CellTypes =>
            LET soc == e[3].value[1]
            IN  /\ e[3].error = "none"
                /\ soc >= 0 /\ soc <= 1000
                /\ (e[1] <= CellTypes[e[2]].minimum_voltage) => soc = 0
                /\ (e[1] >= CellTypes[e[2]].maximum_voltage) => soc = 1000

\* C2 witness: calculate_soc was called at 0 V and answered 0
C2_Witness ==
    \E e \in log.soc : e[1] = 0 /\ e[2] = "LFP" /\ e[3].value = <<0>>

\* a voltage inside the chemistry's band
InBand(e) ==
    /\ e[1] >= CellTypes[e[2]].minimum_voltage
    /\ e[1] <= CellTypes[e[2]].maximum_voltage

\* C3 as stated: inside the band calculate_soc equals
\* (v - minimum_voltage) / (maximum_voltage - minimum_voltage) * 100 exactly.
C3_SocExactFormula ==
    \A e \in Known(log.soc) :
        InBand(e) =>
            LET spec == CellTypes[e[2]]
            IN  e[3].value[1] * (spec.maximum_voltage - spec.minimum_voltage)
                    = (e[1] - spec.minimum_voltage) * 1000

\* C3 amended: inside the band calculate_soc is the formula's value rounded
\* to the nearest 0.1 (at most 0.05 away from it), computed with the
\* chemistry's own minimum and maximum voltage (50.0 for NMC at 3.6 V), and it
\* is non-decreasing in the voltage.
C3_SocRoundedFormula ==
    \A e \in Known(log.soc) :
        InBand(e) =>
            LET spec == CellTypes[e[2]]
                range == spec.maximum_voltage - spec.minimum_voltage
                exact == (e[1] - spec.minimum_voltage) * 1000
                soc == e[3].value[1]
            IN  /\ 2 * (soc * range - exact) <= range
                /\ 2 * (exact - soc * range) <= range
                /\ (e[2] = "NMC" /\ e[1] = 3600) => soc = 500
                /\ (e[1] < spec.maximum_voltage) =>
                        calculate_soc(e[1] + 1, e[2]) >= soc
                /\ (e[1] > spec.minimum_voltage) =>
                        calculate_soc(e[1] - 1, e[2]) <= soc

\* C3 witness: calculate_soc of LCO at 3.1 V, where the formula's value
\* 8.333... is not a multiple of 0.1, answered 8.3
C3_Witness ==
    \E e \in log.soc : e[1] = 3100 /\ e[2] = "LCO" /\ e[3].value = <<83>>

\* every reading of the caller names one of the four profiles
AllKnown == \A k \in 1..Len(cells_config) : cells_config[k].type \in DOMAIN CellTypes

CellIds == <<"Cell_1", "Cell_2", "Cell_3", "Cell_4">>

\* C4: for N readings of known chemistries process_cells_data returns N
\* records in input order; record k is named Cell_k, repeats reading k's
\* chemistry, voltage and current, and carries the SOC and status of that
\* same reading.
C4_BatchRecords ==
    (ret.op = "process_cells_data" /\ AllKnown) =>
        /\ ret.error = "none"
        /\ Len(ret.value) = Len(cells_config)
        /\ \A k \in 1..Len(cells_config) :
            /\ ret.value[k].Cell_ID = CellIds[k]
            /\ ret.value[k].Type = cells_config[k].type
            /\ ret.value[k].Voltage_V = cells_config[k].voltage
            /\ ret.value[k].Current_A = cells_config[k].current
            /\ ret.value[k].SOC_pct =
                  calculate_soc(cells_config[k].voltage, cells_config[k].type)
            /\ ret.value[k].Status =
                  get_cell_status(cells_config[k].voltage, cells_config[k].type)

\* C4 witness: a batch of two readings of different chemistries was evaluated
C4_Witness ==
    /\ ret.op = "process_cells_data" /\ AllKnown
    /\ Len(cells_config) = 2
    /\ cells_config[1].type = "NMC" /\ cells_config[2].type = "LTO"
    /\ Len(ret.value) = 2

\* C5: process_cells_data fails (KeyError, the lookup of the unknown
\* chemistry) whenever a reading names a chemistry that is not in the profile
\* table, and returns no result sequence.
C5_UnknownChemistryRaises ==
    (ret.op = "process_cells_data" /\ ~AllKnown) =>
        /\ ret.error = "KeyError"
        /\ ret.value = <<>>

\* C5 witness: a batch whose second reading is of chemistry XYZ was evaluated
C5_Witness ==
    /\ ret.op = "process_cells_data"
    /\ Len(cells_config) = 2
    /\ cells_config[1].type = "LFP" /\ cells_config[2].type = "XYZ"
    /\ ret.error = "KeyError"

\* C6: Power_W of every record is voltage * current rounded to 2 decimals
\* (at most 0.005 W away from the product; 3.2 V * 1.0 A = 3.2,
\* 2.8 V * 1.0 A = 2.8), and 0 when voltage or current is 0.
C6_PowerRounded ==
    (ret.op = "process_cells_data" /\ ret.error = "none") =>
        \A k \in 1..Len(ret.value) :
            LET v == cells_config[k].voltage
                c == cells_config[k].current
                p == ret.value[k].Power_W
            IN  /\ 2 * (p * 10000 - v * c) <= 10000
                /\ 2 * (v * c - p * 10000) <= 10000
                /\ (v = 3200 /\ c = 1000) => p = 320
                /\ (v = 2800 /\ c = 1000) => p = 280
                /\ (v = 0 \/ c = 0) => p = 0

\* C6 witness: a reading whose product 3.505 V * 1.235 A = 4.328675 W is not
\* a multiple of 0.01 W was evaluated to 4.33 W
C6_Witness ==
    /\ ret.op = "process_cells_data" /\ ret.error = "none"
    /\ Len(cells_config) = 1
    /\ cells_config[1].voltage = 3505 /\ cells_config[1].current = 1235
    /\ ret.value[1].Power_W = 433

\* equal arguments always got equal results
Functional(entries) ==
    \A a, b \in entries : (a[1] = b[1] /\ a[2] = b[2]) => a = b

\* C7: the calculator is stateless: no call changes the profile table or the
\* caller's readings, and calls with the same arguments return the same SOC,
\* status and power whatever was called in between.
C7_Stateless ==
    /\ [](/\ cell_types = CellTypes
          /\ Functional(log.soc)
          /\ Functional(log.status)
          /\ \A a, b \in log.batch : a[1] = b[1] => a = b)
    /\ [][cells_config' = cells_config]_vars

\* C7 witness: all three functions have been called on a batch of two
\* readings, calculate_soc last
C7_Witness ==
    /\ Len(cells_config) = 2
    /\ log.soc # {} /\ log.status # {} /\ log.batch # {}
    /\ ret.op = "calculate_soc"

----------------------------------------------------------------------------
(* The Streamlit script.  Every user event (one widget change or one button *)
(* press) and every st.rerun() starts a run of the script from the top:     *)
(* the configuration inputs (lines 189-225), the buttons (227-254), then    *)
(* either the monitoring tick (256-270) or the evaluation pass (272-).      *)
(* pc: "inputs" a run starts; "buttons" the inputs are read; "sleep" the    *)
(* tick is done (time.sleep(1) before st.rerun()); "wait" the run reached   *)
(* the end of the script; "error" the run died of an uncaught exception.    *)

\* max_value of the voltage number_input (mV)
voltage_max_value == 5000

\* max_value of the current number_input (mA)
current_max_value == 10000

\* values the user types into a voltage / current number_input: the ends of
\* the accepted range
UserVoltages == {0, voltage_max_value}

UserCurrents == {0, current_max_value}

\* the pairs (voltage_variation, current_variation) explored for one cell of
\* one tick: random.uniform(-0.05, 0.05) in mV, random.uniform(-0.1, 0.1) in mA
TickDraws == {<<-50, -100>>, <<37, 64>>}

\* the pairs of random() draws explored for one cell of one Randomize: the
\* first for generate_random_voltage, the second for generate_random_current
RandomPairs == {<<0, 999>>, <<999, 0>>}

Cells == 1..NumCells

ButtonKinds == {"update", "randomize", "start", "stop"}

\* lines 160-169: the session state of a new session; the first run starts
Init ==
    /\ cell_types = CellTypes
    /\ monitoring_active = FALSE
    /\ cells_config = [i \in Cells |->
                          [type |-> "LFP", voltage |-> 3200, current |-> 1000]]
    /\ pc = "inputs"
    /\ event = NoEvent
    /\ cells_data = <<>>
    /\ error = "none"
    /\ runs = 0
    /\ variation = <<>>
    /\ stale = FALSE
    /\ ret = NoCall
    /\ log = [soc |-> {}, status |-> {}, batch |-> {}]

\* the user changes one widget of one cell; Streamlit reruns the script
\* (a run sleeping in time.sleep is abandoned for the new one)
UserChange ==
    /\ runs < MaxRuns
    /\ pc \in {"wait", "sleep"}
    /\ \E i \in Cells :
        \/ \E t \in DOMAIN CellTypes :
              event' = [kind |-> "type", cell |-> i, value |-> t]
        \/ \E v \in UserVoltages :
              event' = [kind |-> "voltage", cell |-> i, value |-> v]
        \/ \E c \in UserCurrents :
              event' = [kind |-> "current", cell |-> i, value |-> c]
    /\ pc' = "inputs"
    /\ UNCHANGED <<cell_types, cells_config, monitoring_active, cells_data,
                   error, runs, variation, stale, ret, log>>

\* the user presses one of the buttons on the page: Start is on the page
\* while monitoring is off, Stop while it is on (lines 247-254)
UserPress ==
    /\ runs < MaxRuns
    /\ pc \in {"wait", "sleep"}
    /\ \E b \in ButtonKinds :
        /\ b = "start" => ~monitoring_active
        /\ b = "stop" => monitoring_active
        /\ event' = [kind |-> b, cell |-> 0, value |-> 0]
    /\ pc' = "inputs"
    /\ UNCHANGED <<cell_types, cells_config, monitoring_active, cells_data,
                   error, runs, variation, stale, ret, log>>

\* what the widgets of cell i return: the value the user just gave the
\* widget, else the value= / index= default, which is the stored reading
widget_values(i) ==
    [type    |-> IF event.kind = "type" /\ event.cell = i
                 THEN event.value ELSE cells_config[i].type,
     voltage |-> IF event.kind = "voltage" /\ event.cell = i
                 THEN event.value ELSE cells_config[i].voltage,
     current |-> IF event.kind = "current" /\ event.cell = i
                 THEN event.value ELSE cells_config[i].current]

\* st.number_input raises when its value= argument is outside
\* [min_value, max_value]
input_raises(i) ==
    \/ cells_config[i].voltage < 0
    \/ cells_config[i].voltage > voltage_max_value
    \/ cells_config[i].current < 0
    \/ cells_config[i].current > current_max_value

\* lines 189-225: for each cell in turn, build the three widgets from the
\* stored reading and store what they return.  An exception of a widget
\* ends the run; the cells before it are already stored.  The module-level
\* names of the previous run (cells_data, the variations) are gone.
ConfigInputs ==
    /\ pc = "inputs"
    /\ runs < MaxRuns
    /\ runs' = runs + 1
    /\ variation' = <<>>
    /\ cells_data' = <<>>
    /\ IF \E i \in Cells : input_raises(i)
       THEN LET j == CHOOSE i \in Cells :
                        input_raises(i) /\ \A h \in 1..(i - 1) : ~input_raises(h)
            IN  /\ cells_config' = [i \in Cells |->
                      IF i < j THEN widget_values(i) ELSE cells_config[i]]
                /\ error' = "StreamlitValueAboveMaxError"
                /\ pc' = "error"
       ELSE /\ cells_config' = [i \in Cells |-> widget_values(i)]
            /\ error' = "none"
            /\ pc' = "buttons"
    /\ UNCHANGED <<cell_types, monitoring_active, event, stale, ret, log>>

\* lines 232-233: Update Config reruns the script
UpdateConfig ==
    /\ pc = "buttons"
    /\ event.kind = "update"
    /\ event' = NoEvent
    /\ pc' = "inputs"
    /\ UNCHANGED <<cell_types, cells_config, monitoring_active, cells_data,
                   error, runs, variation, stale, ret, log>>

\* lines 236-241: Randomize draws a new voltage and current for every cell
\* and reruns the script
Randomize ==
    /\ pc = "buttons"
    /\ event.kind = "randomize"
    /\ \E u \in [Cells -> RandomPairs] :
        cells_config' = [i \in Cells |->
            [type    |-> cells_config[i].type,
             voltage |-> generate_random_voltage(cells_config[i].type, u[i][1]),
             current |-> generate_random_current(u[i][2])]]
    /\ event' = NoEvent
    /\ pc' = "inputs"
    /\ UNCHANGED <<cell_types, monitoring_active, cells_data, error, runs,
                   variation, stale, ret, log>>

\* lines 247-250: Start Monitoring sets the flag and reruns the script
StartMonitoring ==
    /\ pc = "buttons"
    /\ ~monitoring_active
    /\ event.kind = "start"
    /\ monitoring_active' = TRUE
    /\ event' = NoEvent
    /\ pc' = "inputs"
    /\ UNCHANGED <<cell_types, cells_config, cells_data, error, runs,
                   variation, stale, ret, log>>

\* lines 251-254: Stop Monitoring clears the flag and reruns the script
StopMonitoring ==
    /\ pc = "buttons"
    /\ monitoring_active
    /\ event.kind = "stop"
    /\ monitoring_active' = FALSE
    /\ event' = NoEvent
    /\ pc' = "inputs"
    /\ UNCHANGED <<cell_types, cells_config, cells_data, error, runs,
                   variation, stale, ret, log>>

\* faulty variant: the perturbed values are stored without max(0, .)
perturb_unfloored(value, delta) == 10 * Round(value + delta, 10)

\* lines 263-267: round(max(0, value + variation), 2); only the numeric value
\* is kept (Python's max yields the int 0 when it floors)
perturb(value, delta) == 10 * Round(Max(0, value + delta), 10)

\* lines 257-268: with monitoring active and no button pressed, every cell's
\* voltage and current are perturbed; the run then sleeps (line 269)
Tick ==
    /\ pc = "buttons"
    /\ event.kind \notin ButtonKinds
    /\ monitoring_active
    /\ \E d \in [Cells -> TickDraws] :
        /\ cells_config' = [i \in Cells |->
              [type    |-> cells_config[i].type,
               voltage |-> perturb(cells_config[i].voltage, d[i][1]),
               current |-> perturb(cells_config[i].current, d[i][2])]]
        /\ variation' = d
    /\ stale' = TRUE
    /\ event' = NoEvent
    /\ pc' = "sleep"
    /\ UNCHANGED <<cell_types, monitoring_active, cells_data, error, runs,
                   ret, log>>

\* line 270: st.rerun() after the sleep
Rerun ==
    /\ runs < MaxRuns
    /\ pc = "sleep"
    /\ event' = NoEvent
    /\ pc' = "inputs"
    /\ UNCHANGED <<cell_types, cells_config, monitoring_active, cells_data,
                   error, runs, variation, stale, ret, log>>

\* line 273 and the rendering after it: reached with monitoring off and no
\* button pressed; the readings are evaluated and the run ends (the
\* temperature draws explored are the same for every cell of a pass)
ProcessData ==
    /\ pc = "buttons"
    /\ event.kind \notin ButtonKinds
    /\ ~monitoring_active
    /\ \E u \in RandomDraws :
        LET r == process_cells_data(cells_config, [i \in Cells |-> u])
        IN  IF r.error = "none"
            THEN /\ cells_data' = r.value
                 /\ stale' = FALSE
                 /\ pc' = "wait"
                 /\ UNCHANGED error
            ELSE /\ error' = r.error
                 /\ pc' = "error"
                 /\ UNCHANGED <<cells_data, stale>>
    /\ event' = NoEvent
    /\ UNCHANGED <<cell_types, cells_config, monitoring_active, runs,
                   variation, ret, log>>

Next ==
    \/ UserChange
    \/ UserPress
    \/ ConfigInputs
    \/ UpdateConfig
    \/ Randomize
    \/ StartMonitoring
    \/ StopMonitoring
    \/ Tick
    \/ Rerun
    \/ ProcessData

Spec == Init /\ [][Next]_vars

----------------------------------------------------------------------------
(* Properties of the script, checked under Spec *)

\* C8: every stored voltage and current stays >= 0 through any number of
\* monitoring ticks, and a tick whose draw would take a value below 0 stores
\* 0 instead.
C8_TickNonNegative ==
    /\ [](\A i \in 1..Len(cells_config) :
            cells_config[i].voltage >= 0 /\ cells_config[i].current >= 0)
    /\ [][(pc = "buttons" /\ pc' = "sleep") =>
            \A i \in Cells :
                /\ (cells_config[i].voltage + variation'[i][1] < 0) =>
                        cells_config'[i].voltage = 0
                /\ (cells_config[i].current + variation'[i][2] < 0) =>
                        cells_config'[i].current = 0]_vars

\* C8 witness: a tick has just drawn negative variations for a cell and left
\* its voltage and current at 0
C8_Witness ==
    /\ pc = "sleep"
    /\ \E i \in Cells :
        /\ variation[i][1] < 0 /\ cells_config[i].voltage = 0
        /\ variation[i][2] < 0 /\ cells_config[i].current = 0

\* C9: while monitoring is active every tick is followed by an evaluation
\* pass before the next tick: whenever a run that st.rerun() started is about
\* to perturb the readings, process_cells_data has run since the previous
\* tick.
C9_TickThenEvaluate ==
    (pc = "buttons" /\ monitoring_active /\ event.kind = "none") => ~stale

\* C10: every stored voltage stays within the voltage input's range and every
\* stored current within the current input's range.
C10_WithinWidgetRange ==
    \A i \in 1..Len(cells_config) :
        /\ cells_config[i].voltage >= 0
        /\ cells_config[i].voltage <= voltage_max_value
        /\ cells_config[i].current >= 0
        /\ cells_config[i].current <= current_max_value

=============================================================================
